---- MODULE Spec2Model ----
(***************************************************************************)
(* Model of public_app.py: a Streamlit page that previews an AI draft      *)
(* (call_model_tuned) and, on consent, uploads the case as a JSON object   *)
(* to a storage bucket.                                                    *)
(*                                                                         *)
(* Texts (prompts, model output, drafts) are sequences of one-character    *)
(* strings; <<>> is the empty string.  Python's None is the value None.    *)
(* Every user interaction is one run of the script, modelled as one        *)
(* action.                                                                 *)
(***************************************************************************)
EXTENDS Naturals, Sequences, FiniteSets, TLC

VARIABLES secrets, page, pub_prompt, pub_consent, draft_text, clock, bucket,
          draft_src, last, uploads, gen

vars == <<secrets, page, pub_prompt, pub_consent, draft_text, clock, bucket,
          draft_src, last, uploads, gen>>

(***************************************************************************)
(* Bounds of the model.                                                    *)
(***************************************************************************)
MaxParts == 1
MaxClock == 1
DayLen == 1
NumTokens == 2
MaxUploads == 1
MaxStored == 2

\* Python's None and a missing secret, as texts no input contains.
None == <<"<None>">>
Absent == <<"<absent>">>

(***************************************************************************)
(* Text helpers: str.strip, str.join, truthiness.                          *)
(***************************************************************************)
Whitespace == {" ", "\n"}

RECURSIVE LStrip(_, _)
LStrip(s, cs) ==
    IF s = <<>> THEN s
    ELSE IF Head(s) \in cs THEN LStrip(Tail(s), cs) ELSE s

RECURSIVE RStrip(_, _)
RStrip(s, cs) ==
    IF s = <<>> THEN s
    ELSE IF s[Len(s)] \in cs THEN RStrip(SubSeq(s, 1, Len(s) - 1), cs) ELSE s

StripChars(s, cs) == RStrip(LStrip(s, cs), cs)

Strip(s) == StripChars(s, Whitespace)

RECURSIVE Join(_, _)
Join(pieces, sep) ==
    IF pieces = <<>> THEN <<>>
    ELSE IF Len(pieces) = 1 THEN pieces[1]
    ELSE pieces[1] \o sep \o Join(Tail(pieces), sep)

Truthy(v) == v # None /\ v # Absent /\ v # <<>>

SeqsUpTo(S, n) == UNION {[1..k -> S] : k \in 0..n}

(***************************************************************************)
(* Inputs.                                                                 *)
(***************************************************************************)
\* The text area's contents: empty, blank, and two prompts, one of them
\* with surrounding whitespace.
Prompts == {<<>>, <<" ">>, <<"a">>, <<" ", "b", "\n">>}

TextSamples == {<<>>, <<" ">>, <<"x">>, <<" ", "y", " ">>}
Pieces == TextSamples \cup {None}

\* A model response: r.text and the text of the parts of its candidates,
\* in order.
Responses == [text : Pieces, parts : SeqsUpTo(Pieces, MaxParts)]
Errors == {"E"}
Outcomes == [kind : {"raise"}, err : Errors] \cup [kind : {"resp"}, r : Responses]

\* The outcomes the session handlers are driven with: an error, an answer
\* without text, an answer with text.
SessionOutcomes ==
    { [kind |-> "raise", err |-> "E"],
      [kind |-> "resp", r |-> [text |-> None, parts |-> <<>>]],
      [kind |-> "resp", r |-> [text |-> <<" ", "x">>, parts |-> <<>>]] }

Tokens == 1..NumTokens

(***************************************************************************)
(* Configuration (st.secrets) and the values the script derives from it.   *)
(***************************************************************************)
SecretsSpace ==
    [ project_id : {Absent, <<>>, <<"proj">>},
      location : {Absent, <<>>, <<"asia-northeast3">>},
      tuned_model_name : {Absent, <<>>, <<" ">>, <<"tuned">>},
      raw_bucket_name : {Absent, <<>>, <<"bkt">>},
      raw_prefix : {Absent, <<>>, <<"/", "p", "/">>},
      gcp_service_account : {Absent, <<"malformed">>, <<"valid">>} ]

SecretsGet(s, k, default) == IF s[k] = Absent THEN default ELSE s[k]

Or(v, default) == IF Truthy(v) THEN v ELSE default

PROJECT_ID == SecretsGet(secrets, "project_id", None)
LOCATION == SecretsGet(secrets, "location", <<"us-central1">>)
TUNED_NAME == Strip(Or(SecretsGet(secrets, "tuned_model_name", None), <<>>))
RAW_BUCKET == SecretsGet(secrets, "raw_bucket_name", None)
RAW_PREFIX ==
    StripChars(Strip(Or(SecretsGet(secrets, "raw_prefix", None), <<"raw_submissions">>)), {"/"})

\* SecretsOK without the check of the bucket name.
SecretsOK_no_bucket == Truthy(PROJECT_ID) /\ Truthy(LOCATION) /\ Truthy(TUNED_NAME)

SecretsOK == Truthy(PROJECT_ID) /\ Truthy(LOCATION) /\ Truthy(TUNED_NAME) /\ Truthy(RAW_BUCKET)

\* from_service_account_info raises on a missing or malformed entry.
CredentialsOK == secrets.gcp_service_account = <<"valid">>

\* The script reaches the UI only past both st.stop() calls.
Operable == SecretsOK /\ CredentialsOK

(***************************************************************************)
(* Model calls.                                                            *)
(***************************************************************************)
BASE_MODEL == <<"gemini-1.5-pro-002">>

Repr(e) == <<"repr">> \o <<e>>

IsText(t) == Truthy(t)

extract_text(r) ==
    IF Truthy(r.text) THEN Strip(r.text)
    ELSE Strip(Join(SelectSeq(r.parts, IsText), <<"\n">>))

\* One generate_content call: the request as the inference service sees it.
Request(model, prompt) == [model |-> model, stream |-> FALSE, prompt |-> prompt]

\* What one strategy contributes: the extracted text (empty when the call
\* raised) and its entry in meta["route"].
StrategyText(o) == IF o.kind = "resp" THEN extract_text(o.r) ELSE <<>>

\* RouteEntry recording every answered call as a success.
RouteEntry_always_ok(name, o) ==
    IF o.kind = "resp"
    THEN [name |-> name, ok |-> TRUE]
    ELSE [name |-> name, error |-> Repr(o.err)]

RouteEntry(name, o) ==
    IF o.kind = "resp"
    THEN [name |-> name, ok |-> Truthy(StrategyText(o))]
    ELSE [name |-> name, error |-> Repr(o.err)]

\* call_model_tuned asking the base model even after the tuned model
\* returned text.
call_model_tuned_always_base(prompt, o1, o2) ==
    LET e1 == [name |-> "tuned-sync", ok |-> Truthy(StrategyText(o1))]
        e2 == [name |-> "base-sync", ok |-> Truthy(StrategyText(o2))]
        c1 == Request(TUNED_NAME, prompt)
        c2 == Request(BASE_MODEL, prompt)
    IN  [text |-> IF Truthy(StrategyText(o1)) THEN StrategyText(o1) ELSE StrategyText(o2),
         meta |-> [route |-> <<e1, e2>>], calls |-> <<c1, c2>>, raised |-> FALSE]

\* call_model_tuned without the except clause around the base model call.
call_model_tuned_base_uncaught(prompt, o1, o2) ==
    LET e1 == IF o1.kind = "resp"
              THEN [name |-> "tuned-sync", ok |-> Truthy(StrategyText(o1))]
              ELSE [name |-> "tuned-sync", error |-> Repr(o1.err)]
        e2 == [name |-> "base-sync", ok |-> Truthy(StrategyText(o2))]
        c1 == Request(TUNED_NAME, prompt)
        c2 == Request(BASE_MODEL, prompt)
    IN  IF Truthy(StrategyText(o1))
        THEN [text |-> StrategyText(o1), meta |-> [route |-> <<e1>>], calls |-> <<c1>>,
              raised |-> FALSE]
        ELSE IF o2.kind = "raise"
        THEN [text |-> <<>>, meta |-> [route |-> <<e1>>], calls |-> <<c1, c2>>,
              raised |-> TRUE]
        ELSE [text |-> StrategyText(o2), meta |-> [route |-> <<e1, e2>>],
              calls |-> <<c1, c2>>, raised |-> FALSE]

\* The result of call_model_tuned(prompt) when the tuned model answers o1
\* and the base model, if asked, answers o2: the returned text and meta,
\* the requests made, in order, and whether an exception left the function
\* (both strategies run inside try/except Exception).
call_model_tuned(prompt, o1, o2) ==
    LET e1 == RouteEntry("tuned-sync", o1)
        e2 == RouteEntry("base-sync", o2)
        c1 == Request(TUNED_NAME, prompt)
        c2 == Request(BASE_MODEL, prompt)
    IN  IF Truthy(StrategyText(o1))
        THEN [text |-> StrategyText(o1), meta |-> [route |-> <<e1>>], calls |-> <<c1>>,
              raised |-> FALSE]
        ELSE [text |-> StrategyText(o2), meta |-> [route |-> <<e1, e2>>],
              calls |-> <<c1, c2>>, raised |-> FALSE]

(***************************************************************************)
(* Storage.                                                                *)
(***************************************************************************)
\* datetime.utcnow() is the clock, in seconds; a UTC day has DayLen of them.
Day(t) == t \div DayLen

\* _raw_key_for_today with a suffix that is the same for every call.
raw_key_for_today_fixed_suffix(now, tok) ==
    << RAW_PREFIX, <<"/">>, <<Day(now)>>, <<"/">>, <<1>>, <<".json">> >>

\* _raw_key_for_today() at time now, when uuid4().hex[:10] comes out as tok.
raw_key_for_today(now, tok) ==
    << RAW_PREFIX, <<"/">>, <<Day(now)>>, <<"/">>, <<tok>>, <<".json">> >>

\* Dumps losing the draft.
Dumps_without_response(obj) ==
    << <<"timestamp", obj.timestamp>>, <<"prompt", obj.prompt>>,
       <<"used_model", obj.used_model>>,
       <<"source_app", obj.source_app>>, <<"version", obj.version>> >>

\* json.dumps keeps the dict's insertion order.
Dumps(obj) ==
    << <<"timestamp", obj.timestamp>>, <<"prompt", obj.prompt>>,
       <<"ai_response", obj.ai_response>>, <<"used_model", obj.used_model>>,
       <<"source_app", obj.source_app>>, <<"version", obj.version>> >>

\* The blob _upload_json writes.
Blob(obj) ==
    [ data |-> Dumps(obj), size |-> Len(Dumps(obj)),
      content_type |-> "application/json", cache_control |-> "no-cache" ]

\* upload_from_file creates the object or replaces the one under the key.
Stored(b, key, obj) ==
    [k \in DOMAIN b \cup {key} |-> IF k = key THEN Blob(obj) ELSE b[k]]

Record(ts, prompt, draft) ==
    [ timestamp |-> ts, prompt |-> Strip(prompt), ai_response |-> draft,
      used_model |-> TUNED_NAME, source_app |-> "public", version |-> "v1" ]

(***************************************************************************)
(* State.                                                                  *)
(*   secrets      st.secrets, fixed for the life of the deployment         *)
(*   page         "init" before the first run, then "stopped" (st.stop())  *)
(*                or "ready" (widgets rendered)                            *)
(*   pub_prompt, pub_consent   the widgets' values                         *)
(*   draft_text   st.session_state.draft_text                              *)
(*   clock        datetime.utcnow(), in seconds                            *)
(*   bucket       the objects of RAW_BUCKET, by key                        *)
(* History, for stating the properties:                                    *)
(*   draft_src    the prompt call_model_tuned was given for draft_text     *)
(*   last         what the latest run of the script did: the button, the   *)
(*                texts its call_model_tuned calls returned, the model     *)
(*                requests, the draft on entry and at the upload (or at    *)
(*                the end), the upload calls                               *)
(*   uploads      the number of upload calls made so far                   *)
(*   gen          one stand-alone call of call_model_tuned (SpecGen)       *)
(***************************************************************************)
Run(button, draft) ==
    [button |-> button, texts |-> <<>>, calls |-> <<>>, draft_in |-> draft,
     draft_up |-> draft, up |-> <<>>]

ValidSecrets ==
    [ project_id |-> <<"proj">>, location |-> Absent,
      tuned_model_name |-> <<"tuned">>, raw_bucket_name |-> <<"bkt">>,
      raw_prefix |-> Absent, gcp_service_account |-> <<"valid">> ]

InitSession ==
    /\ page = "init"
    /\ pub_prompt = <<>>
    /\ pub_consent = FALSE
    /\ draft_text = <<>>
    /\ clock = 0
    /\ bucket = << >>
    /\ draft_src = None
    /\ last = Run("none", <<>>)
    /\ uploads = 0

Init ==
    /\ secrets = ValidSecrets
    /\ InitSession
    /\ gen = [pc |-> "off"]

\* The first run of the script: lines 32-51 stop it or let it render the page;
\* line 141 gives the session its empty draft.
Load ==
    /\ page = "init"
    /\ page' = IF Operable THEN "ready" ELSE "stopped"
    /\ last' = Run("none", draft_text)
    /\ UNCHANGED <<secrets, pub_prompt, pub_consent, draft_text, clock, bucket,
                   draft_src, uploads, gen>>

\* Time passes between runs.
Tick ==
    /\ clock < MaxClock
    /\ clock' = clock + 1
    /\ UNCHANGED <<secrets, page, pub_prompt, pub_consent, draft_text, bucket,
                   draft_src, last, uploads, gen>>

\* The user edits the text area: a run with no button pressed.
EditPrompt(p) ==
    /\ page = "ready"
    /\ p # pub_prompt
    /\ pub_prompt' = p
    /\ last' = Run("none", draft_text)
    /\ UNCHANGED <<secrets, page, pub_consent, draft_text, clock, bucket,
                   draft_src, uploads, gen>>

\* The user ticks or unticks the consent checkbox: a run with no button pressed.
ToggleConsent ==
    /\ page = "ready"
    /\ pub_consent' = ~pub_consent
    /\ last' = Run("none", draft_text)
    /\ UNCHANGED <<secrets, page, pub_prompt, draft_text, clock, bucket,
                   draft_src, uploads, gen>>

\* "AI draft" button with a blank prompt, lines 144-146.
PreviewBlank ==
    /\ page = "ready"
    /\ ~Truthy(Strip(pub_prompt))
    /\ last' = Run("preview", draft_text)
    /\ UNCHANGED <<secrets, page, pub_prompt, pub_consent, draft_text, clock,
                   bucket, draft_src, uploads, gen>>

\* "AI draft" button, lines 147-157.
PreviewGenerate(o1, o2) ==
    /\ page = "ready"
    /\ Truthy(Strip(pub_prompt))
    /\ LET g == call_model_tuned(pub_prompt, o1, o2)
       IN  /\ draft_text' = IF Truthy(g.text) THEN g.text ELSE <<>>
           /\ draft_src' = IF Truthy(g.text) THEN pub_prompt ELSE None
           /\ last' = [button |-> "preview", texts |-> <<g.text>>, calls |-> g.calls,
                       draft_in |-> draft_text, draft_up |-> draft_text',
                       up |-> <<>>]
    /\ UNCHANGED <<secrets, page, pub_prompt, pub_consent, clock, bucket,
                   uploads, gen>>

\* SubmitAllowed testing the prompt as typed, not trimmed.
SubmitAllowed_untrimmed(consent, prompt) == consent /\ Truthy(prompt)

\* The checks of the submit handler, lines 164-167.
SubmitAllowed(consent, prompt) == consent /\ Truthy(Strip(prompt))

\* NeedsDraft generating for every submission.
NeedsDraft_always(draft) == TRUE

\* Whether the submit handler generates a draft on demand, line 169.
NeedsDraft(draft) == ~Truthy(draft)

\* "Submit" button, refused: lines 163-167.
SubmitRejected ==
    /\ page = "ready"
    /\ ~SubmitAllowed(pub_consent, pub_prompt)
    /\ last' = Run("submit", draft_text)
    /\ UNCHANGED <<secrets, page, pub_prompt, pub_consent, draft_text, clock,
                   bucket, draft_src, uploads, gen>>

\* DraftAfterUpload clearing the draft whatever the upload did.
DraftAfterUpload_always_clear(ok, draft) == <<>>

\* The draft after the upload call returned (ok) or raised, lines 183-187.
DraftAfterUpload(ok, draft) == IF ok THEN <<>> ELSE draft

\* "Submit" button, accepted: lines 168-187.  t1 and t2 are the two readings
\* of the clock (record, key), tok the random suffix, ok whether the upload
\* call returns or raises.
SubmitAccepted(o1, o2, t1, t2, tok, ok) ==
    /\ page = "ready"
    /\ SubmitAllowed(pub_consent, pub_prompt)
    /\ clock <= t1 /\ t1 <= t2
    /\ LET regen == NeedsDraft(draft_text)
           g == call_model_tuned(pub_prompt, o1, o2)
           draft == IF regen THEN Or(g.text, <<>>) ELSE draft_text
           src == IF regen THEN (IF Truthy(g.text) THEN pub_prompt ELSE None)
                  ELSE draft_src
           record == Record(t1, pub_prompt, draft)
           key == raw_key_for_today(t2, tok)
       IN  /\ bucket' = IF ok THEN Stored(bucket, key, record) ELSE bucket
           /\ draft_text' = DraftAfterUpload(ok, draft)
           /\ draft_src' = IF ok THEN None ELSE src
           /\ last' = [button |-> "submit", texts |-> IF regen THEN <<g.text>> ELSE <<>>,
                       calls |-> IF regen THEN g.calls ELSE <<>>,
                       draft_in |-> draft_text, draft_up |-> draft,
                       up |-> << [key |-> key, obj |-> record, ok |-> ok,
                                  consent |-> pub_consent, src |-> src,
                                  day |-> Day(t2), tok |-> tok,
                                  before |-> bucket] >>]
    /\ uploads' = uploads + 1
    /\ clock' = t2
    /\ UNCHANGED <<secrets, page, pub_prompt, pub_consent, gen>>

Next ==
    \/ Load
    \/ Tick
    \/ \E p \in Prompts : EditPrompt(p)
    \/ ToggleConsent
    \/ PreviewBlank
    \/ \E o1, o2 \in SessionOutcomes : PreviewGenerate(o1, o2)
    \/ SubmitRejected
    \/ \E o1, o2 \in SessionOutcomes, t1, t2 \in 0..MaxClock, tok \in Tokens, ok \in BOOLEAN :
          uploads < MaxUploads /\ SubmitAccepted(o1, o2, t1, t2, tok, ok)

Spec == Init /\ [][Next]_vars

(***************************************************************************)
(* call_model_tuned on its own, over every pair of strategy outcomes.      *)
(***************************************************************************)
InitGen ==
    /\ secrets = ValidSecrets
    /\ InitSession
    /\ gen \in [pc : {"idle"}, prompt : {p \in Prompts : Truthy(Strip(p))},
                 o1 : Outcomes, o2 : Outcomes]

Generate ==
    /\ gen.pc = "idle"
    /\ LET g == call_model_tuned(gen.prompt, gen.o1, gen.o2)
       IN  gen' = [pc |-> "done", prompt |-> gen.prompt, o1 |-> gen.o1, o2 |-> gen.o2,
                   text |-> g.text, meta |-> g.meta, calls |-> g.calls,
                   raised |-> g.raised]
    /\ UNCHANGED <<secrets, page, pub_prompt, pub_consent, draft_text, clock,
                   bucket, draft_src, last, uploads>>

NextGen == Generate

SpecGen == InitGen /\ [][NextGen]_vars

(***************************************************************************)
(* The page under every configuration: one instant, so that the            *)
(* configurations, not the clock, make up the state space.                 *)
(***************************************************************************)
InitConfig ==
    /\ secrets \in SecretsSpace
    /\ InitSession
    /\ gen = [pc |-> "off"]

NextConfig ==
    \/ Load
    \/ \E p \in Prompts : EditPrompt(p)
    \/ ToggleConsent
    \/ PreviewBlank
    \/ \E o1, o2 \in SessionOutcomes : PreviewGenerate(o1, o2)
    \/ SubmitRejected
    \/ \E o1, o2 \in SessionOutcomes, tok \in Tokens, ok \in BOOLEAN :
          uploads < MaxUploads /\ SubmitAccepted(o1, o2, clock, clock, tok, ok)

SpecConfig == InitConfig /\ [][NextConfig]_vars

(***************************************************************************)
(* The bucket over several submissions: the session without the preview    *)
(* button, so that every draft is generated by the submit handler.         *)
(***************************************************************************)
NextStore ==
    \/ Load
    \/ Tick
    \/ \E p \in Prompts : EditPrompt(p)
    \/ ToggleConsent
    \/ SubmitRejected
    \/ \E o1, o2 \in SessionOutcomes, t1, t2 \in 0..MaxClock, tok \in Tokens, ok \in BOOLEAN :
          uploads < MaxStored /\ SubmitAccepted(o1, o2, t1, t2, tok, ok)

SpecStore == Init /\ [][NextStore]_vars

(***************************************************************************)
(* Properties.                                                             *)
(***************************************************************************)
EntryOk(e) == "ok" \in DOMAIN e /\ e.ok
EntryError(e) == "error" \in DOMAIN e
EntryFailed(e) == EntryError(e) \/ ("ok" \in DOMAIN e /\ ~e.ok)

TunedFailed == gen.o1.kind = "raise" \/ extract_text(gen.o1.r) = <<>>
BaseFailed == gen.o2.kind = "raise" \/ extract_text(gen.o2.r) = <<>>

\* The latest run pressed submit and reached the upload call.
Uploading == last.button = "submit" /\ last.up # <<>>
U == last.up[1]

\* C1 as stated: the chain is tuned endpoint streaming, then the same
\* endpoint synchronously, then the base model, each tried only after the
\* one before it failed or was empty, none skipped.
C1_ThreeStepChain ==
    gen.pc = "done" =>
        LET chain == << [model |-> TUNED_NAME, stream |-> TRUE, prompt |-> gen.prompt],
                        [model |-> TUNED_NAME, stream |-> FALSE, prompt |-> gen.prompt],
                        [model |-> BASE_MODEL, stream |-> FALSE, prompt |-> gen.prompt] >>
        IN  /\ Len(gen.calls) \in 1..3
            /\ \A i \in 1..Len(gen.calls) : gen.calls[i] = chain[i]
            /\ gen.text = <<>> => Len(gen.calls) = 3

\* C1, amended: call_model_tuned runs a chain of two synchronous strategies.
\* It always calls the tuned endpoint first, without streaming; it calls the
\* base model next if and only if the tuned call raised or gave empty text;
\* it makes no other call, and returns the tuned text when that is non-empty.
C1_TwoStepChain ==
    gen.pc = "done" =>
        /\ Len(gen.calls) = (IF TunedFailed THEN 2 ELSE 1)
        /\ gen.calls[1] = [model |-> TUNED_NAME, stream |-> FALSE, prompt |-> gen.prompt]
        /\ TunedFailed =>
              gen.calls[2] = [model |-> BASE_MODEL, stream |-> FALSE, prompt |-> gen.prompt]
        /\ ~TunedFailed => gen.text = extract_text(gen.o1.r)
        /\ TunedFailed => gen.text = (IF BaseFailed THEN <<>> ELSE extract_text(gen.o2.r))

\* The tuned model answered with text wrapped in whitespace and was the only
\* one asked.
C1_Witness ==
    /\ gen.pc = "done"
    /\ gen.o1.kind = "resp" /\ gen.o1.r.text = <<" ", "y", " ">>
    /\ gen.text = <<"y">>
    /\ Len(gen.calls) = 1

\* C2 as stated: when every strategy raises, the result is the empty string,
\* no exception leaves the function, and the trace has exactly 3 entries,
\* each an error entry.
C2_ThreeErrors ==
    (gen.pc = "done" /\ gen.o1.kind = "raise" /\ gen.o2.kind = "raise") =>
        /\ gen.text = <<>>
        /\ ~gen.raised
        /\ Len(gen.meta.route) = 3
        /\ \A i \in 1..Len(gen.meta.route) : EntryError(gen.meta.route[i])

\* C2, amended: when both strategies raise, the result is the empty string,
\* no exception leaves the function, and the trace has exactly 2 entries,
\* tuned-sync then base-sync, each carrying the description of its error.
C2_TwoErrors ==
    (gen.pc = "done" /\ gen.o1.kind = "raise" /\ gen.o2.kind = "raise") =>
        /\ gen.text = <<>>
        /\ ~gen.raised
        /\ gen.meta.route = << [name |-> "tuned-sync", error |-> <<"repr", gen.o1.err>>],
                               [name |-> "base-sync", error |-> <<"repr", gen.o2.err>>] >>

C2_Witness ==
    /\ gen.pc = "done" /\ gen.o1.kind = "raise" /\ gen.o2.kind = "raise"
    /\ Len(gen.meta.route) = 2

\* C3: for a non-blank prompt and any outcomes, the text is a string, the
\* trace has one entry per request made, in the order of the requests, the
\* text is non-empty exactly when the last entry is a success, and every
\* earlier entry is an error entry or has ok = false.
C3_TraceMatchesAttempts ==
    gen.pc = "done" =>
        LET route == gen.meta.route
            n == Len(route)
        IN  /\ gen.text # None
            /\ \A i \in 1..Len(gen.text) : gen.text[i] \in STRING
            /\ n = Len(gen.calls)
            /\ n >= 1
            /\ \A i \in 1..n :
                  route[i].name = (IF gen.calls[i].model = BASE_MODEL
                                   THEN "base-sync" ELSE "tuned-sync")
            /\ (gen.text # <<>>) <=> EntryOk(route[n])
            /\ \A i \in 1..(n - 1) : EntryFailed(route[i])

\* The tuned model answered with nothing usable, the base model with text.
C3_Witness ==
    /\ gen.pc = "done"
    /\ Len(gen.meta.route) = 2
    /\ "ok" \in DOMAIN gen.meta.route[1] /\ ~gen.meta.route[1].ok
    /\ EntryOk(gen.meta.route[2])
    /\ gen.text # <<>>

\* C4: a press of submit reaches the upload call if and only if consent is
\* checked and the prompt is non-blank after trimming, whatever generation
\* gave; no record has an empty prompt and none is uploaded without consent.
C4_UploadIffConsentAndPrompt ==
    /\ last.button = "submit" =>
          ((last.up # <<>>) <=> (pub_consent /\ Strip(pub_prompt) # <<>>))
    /\ Uploading => (U.consent /\ U.obj.prompt # <<>> /\ U.obj.prompt = Strip(pub_prompt))
    /\ \A k \in DOMAIN bucket : bucket[k].data[2] # <<"prompt", <<>> >>

\* A submission went out although generation returned nothing.
C4_Witness ==
    /\ Uploading
    /\ last.texts = << <<>> >>
    /\ U.ok
    /\ U.obj.ai_response = <<>>

\* C5: after a submit whose upload succeeded the draft is empty; after one
\* whose upload failed the draft is what it was at the upload; after a
\* refused submit the draft is what it was before the press.
C5_DraftClearedOnlyOnSuccess ==
    last.button = "submit" =>
        /\ (last.up # <<>> /\ U.ok) => draft_text = <<>>
        /\ (last.up # <<>> /\ ~U.ok) => draft_text = last.draft_up
        /\ last.up = <<>> => draft_text = last.draft_in

\* The upload of a submission with a draft failed, and the draft is kept.
C5_Witness ==
    /\ Uploading
    /\ ~U.ok
    /\ U.obj.ai_response # <<>>
    /\ draft_text = U.obj.ai_response

\* C6: an accepted submit makes exactly one upload call; if the call fails
\* the bucket is as before; if it succeeds the bucket differs from before in
\* exactly one key, which now holds the complete record.
C6_OneUploadNoRetry ==
    Uploading =>
        /\ Len(last.up) = 1
        /\ ~U.ok => bucket = U.before
        /\ U.ok =>
              /\ DOMAIN bucket = DOMAIN U.before \cup {U.key}
              /\ \A k \in DOMAIN U.before : k # U.key => bucket[k] = U.before[k]
              /\ bucket[U.key].data =
                    << <<"timestamp", U.obj.timestamp>>, <<"prompt", Strip(pub_prompt)>>,
                       <<"ai_response", last.draft_up>>, <<"used_model", TUNED_NAME>>,
                       <<"source_app", "public">>, <<"version", "v1">> >>
              /\ bucket[U.key].content_type = "application/json"

\* A second object was added next to an earlier one.
C6_Witness ==
    /\ Uploading
    /\ U.ok
    /\ DOMAIN U.before # {}
    /\ U.key \notin DOMAIN U.before
    /\ Cardinality(DOMAIN bucket) = 2

\* C7 as stated: every submission is written under a key no earlier
\* submission used, so no stored object is overwritten.
C7_KeysNeverCollide ==
    (Uploading /\ U.ok) => U.key \notin DOMAIN U.before

\* C7, amended: every key has the form <prefix>/<UTC date>/<suffix>.json with
\* the date of the submission and its random suffix; a submission reuses the
\* key of a stored object exactly when both its date and its suffix equal
\* that object's, and only then is the object overwritten.
C7_KeysCollideOnlyOnEqualSuffix ==
    Uploading =>
        /\ U.key = << RAW_PREFIX, <<"/">>, <<U.day>>, <<"/">>, <<U.tok>>, <<".json">> >>
        /\ U.tok \in Tokens
        /\ \A k \in DOMAIN U.before :
              (k = U.key) <=> (k[3] = <<U.day>> /\ k[5] = <<U.tok>>)
        /\ U.ok => \A k \in DOMAIN U.before :
              (bucket[k] # U.before[k]) => (k[3] = <<U.day>> /\ k[5] = <<U.tok>>)

\* Two submissions of the same day with different suffixes are both stored.
C7_Witness ==
    /\ Uploading
    /\ U.ok
    /\ \E k \in DOMAIN U.before : k[3] = <<U.day>> /\ k[5] # <<U.tok>>
    /\ Cardinality(DOMAIN bucket) = 2

AnyAbsent(keys) == \E k \in keys : secrets[k] = Absent

NothingDone == last.calls = <<>> /\ last.up = <<>> /\ DOMAIN bucket = {}

\* C8 as stated: with any of the six configuration values absent, no model
\* call and no upload is ever made.
C8_AnyAbsentStops ==
    AnyAbsent({"project_id", "location", "tuned_model_name", "raw_bucket_name",
               "raw_prefix", "gcp_service_account"}) => NothingDone

\* C8, amended: with the project identifier, the target model identifier, the
\* bucket name or the credential material absent, the page is never rendered
\* and no model call and no upload is made; an absent region or key prefix
\* does not stop the application, which then uploads under the default prefix
\* raw_submissions.
C8_RequiredAbsentStops ==
    /\ AnyAbsent({"project_id", "tuned_model_name", "raw_bucket_name",
                  "gcp_service_account"}) => (page # "ready" /\ NothingDone)
    /\ (Uploading /\ secrets.raw_prefix = Absent) => U.key[1] = <<"raw_submissions">>

\* Only the bucket name is missing, and the script has stopped.
C8_Witness ==
    /\ page = "stopped"
    /\ secrets.raw_bucket_name = Absent
    /\ ~AnyAbsent({"project_id", "location", "tuned_model_name", "raw_prefix",
                   "gcp_service_account"})
    /\ secrets.gcp_service_account = <<"valid">>
    /\ secrets.project_id # <<>> /\ secrets.tuned_model_name = <<"tuned">>

\* C9: an accepted submit calls the generator if and only if the draft is
\* empty on entry; a non-empty draft goes into the record as it is, with no
\* model request; an empty one leads to exactly one call of the generator,
\* whose result, empty or not, goes into the record.
C9_GenerateIffNoDraft ==
    Uploading =>
        /\ (last.texts # <<>>) <=> (last.draft_in = <<>>)
        /\ (last.calls # <<>>) <=> (last.draft_in = <<>>)
        /\ last.draft_in # <<>> => U.obj.ai_response = last.draft_in
        /\ last.draft_in = <<>> =>
              (Len(last.texts) = 1 /\ U.obj.ai_response = last.texts[1])

\* A draft left by a preview was submitted.
C9_Witness ==
    /\ Uploading
    /\ last.draft_in # <<>>
    /\ last.texts = <<>>
    /\ U.ok

\* C10: in every uploaded record, ai_response is empty or is text the
\* generator produced for the prompt stored in the record.
C10_DraftMatchesPrompt ==
    Uploading =>
        \/ U.obj.ai_response = <<>>
        \/ (U.src # None /\ Strip(U.src) = U.obj.prompt)

====
